---- MODULE Spec2Model ----
(***************************************************************************)
(* A model of the Try type of icssc/stdlib (class Try and its two          *)
(* variants Success and Failure).                                          *)
(*                                                                         *)
(* JavaScript values are records with a field k naming their kind.  A Try  *)
(* instance is a value of kind "try" that carries the address (id) of the  *)
(* object, so that "returns this" and "returns a new instance" differ.     *)
(* A caller-supplied function is invoked at most once by every method, so  *)
(* it is represented by what that invocation does: Ret(v) (it returns v /  *)
(* its promise fulfils with v), Raise(e) (it throws e / its promise        *)
(* rejects with e), Pending (its promise has not settled yet) and Default  *)
(* (the optional argument was omitted).  Each method is an operator from   *)
(* the receiver and these behaviours to an effect: the method's outcome    *)
(* and the list of invocations of supplied functions it made.              *)
(***************************************************************************)
EXTENDS Integers, Sequences, FiniteSets, TLC

VARIABLES cur, call, steps, law

vars == <<cur, call, steps, law>>

(***************************************************************************)
(* Bounds                                                                  *)
(***************************************************************************)
MaxSteps == 3
MaxNum == 1

(***************************************************************************)
(* JavaScript values                                                       *)
(***************************************************************************)
Num(n) == [k |-> "num", n |-> n]
Str(s) == [k |-> "str", s |-> s]
Bool(b) == [k |-> "bool", b |-> b]
Undef == [k |-> "undefined"]
Null == [k |-> "null"]
NoArg == [k |-> "noarg"]

\* new Error(msg); oid is the address of the error object
ErrorObj(msg, oid) == [k |-> "error", msg |-> msg, oid |-> oid]

\* An Error the library constructs during the call that allocates at nid
NewError(msg, nid) == ErrorObj(msg, nid)

Success(value, id) == [k |-> "try", tag |-> "Success", p |-> value, id |-> id]
Failure(e, id) == [k |-> "try", tag |-> "Failure", p |-> e, id |-> id]

\* Objects allocated by caller code during the call nid live at negative addresses
UserId(nid) == 0 - nid

\* Template-literal conversion `${x}`
ToStr(x) ==
  CASE x.k = "num" -> ToString(x.n)
    [] x.k = "str" -> x.s
    [] x.k = "bool" -> (IF x.b THEN "true" ELSE "false")
    [] x.k = "undefined" -> "undefined"
    [] x.k = "null" -> "null"
    [] x.k = "error" -> "Error: " \o x.msg
    [] OTHER -> "[object Object]"

\* x != null (loose inequality: false for null and undefined only)
\* x !== null
NotNullStrict(x) == x.k # "null"
NotNull(x) == x.k \notin {"null", "undefined"}

\* JavaScript truthiness, as used by the conditional operator
Truthy(x) ==
  CASE x.k = "num" -> x.n # 0
    [] x.k = "str" -> x.s # ""
    [] x.k = "bool" -> x.b
    [] x.k \in {"undefined", "null"} -> FALSE
    [] OTHER -> TRUE

(***************************************************************************)
(* Behaviours of supplied functions, outcomes of calls                     *)
(***************************************************************************)
Ret(v) == [k |-> "ret", v |-> v]
Raise(e) == [k |-> "raise", v |-> e]
Pending == [k |-> "pending"]
Default == [k |-> "default"]

Invoke(fn, arg) == [fn |-> fn, arg |-> arg]
Eff(out, calls) == [out |-> out, calls |-> calls]

(***************************************************************************)
(* class Try: static constructors                                          *)
(***************************************************************************)
Try_from(x, nid) == Success(x, nid)

Try_of(f, nid) ==
  IF f.k = "raise" THEN Failure(f.v, nid) ELSE Success(f.v, nid)

\* wraps the promise f returned without awaiting it
Try_ofAsyncNoAwait(f, nid) ==
  CASE f.k = "raise" -> Ret(Failure(f.v, nid))
    [] OTHER -> Ret(Success(f, nid))
\* The state of the promise ofAsync returns, given the state of f's promise
Try_ofAsync(f, nid) ==
  CASE f.k = "pending" -> Pending
    [] f.k = "raise" -> Ret(Failure(f.v, nid))
    [] OTHER -> Ret(Success(f.v, nid))

(***************************************************************************)
(* class Success: this.p is the stored value                               *)
(***************************************************************************)
Success_collect(this, f, nid) ==
  Eff(Ret(Try_of(IF f.k = "raise" THEN f
                 ELSE IF NotNull(f.v) THEN Ret(f.v)
                 ELSE Raise(NewError("Function not defined for " \o ToStr(this.p), nid)),
                 nid)),
      <<Invoke("f", this.p)>>)

Success_collectAsync(this, f, nid) ==
  Eff(Try_ofAsync(CASE f.k = "pending" -> Pending
                    [] f.k = "raise" -> f
                    [] NotNull(f.v) -> Ret(f.v)
                    [] OTHER -> Raise(NewError("Function not defined for " \o ToStr(this.p), nid)),
                  nid),
      <<Invoke("f", this.p)>>)

Success_failed(this, nid) ==
  Eff(Ret(Failure(NewError("Cannot call failed() on instance of Success", nid), nid)), <<>>)

\* returns a copy of the receiver
Success_filterCopy(this, f, nid) ==
  Eff(IF f.k = "raise" THEN f
      ELSE IF Truthy(f.v) THEN Ret(Success(this.p, nid))
      ELSE Ret(Failure(NewError("Predicate does not hold for " \o ToStr(this.p), nid), nid)),
      <<Invoke("f", this.p)>>)
Success_filter(this, f, nid) ==
  Eff(IF f.k = "raise" THEN f
      ELSE IF Truthy(f.v) THEN Ret(this)
      ELSE Ret(Failure(NewError("Predicate does not hold for " \o ToStr(this.p), nid), nid)),
      <<Invoke("f", this.p)>>)

Success_filterAsync(this, f, nid) ==
  Eff(CASE f.k = "pending" -> Pending
        [] f.k = "raise" -> f
        [] Truthy(f.v) -> Ret(this)
        [] OTHER -> Ret(Failure(NewError("Predicate does not hold for " \o ToStr(this.p), nid), nid)),
      <<Invoke("f", this.p)>>)

\* returns the receiver instead of what f returned
Success_flatMapTap(this, f, nid) ==
  Eff(IF f.k = "raise" THEN Ret(Failure(f.v, nid)) ELSE Ret(this),
      <<Invoke("f", this.p)>>)
Success_flatMap(this, f, nid) ==
  Eff(IF f.k = "raise" THEN Ret(Failure(f.v, nid)) ELSE Ret(f.v),
      <<Invoke("f", this.p)>>)

\* the catch branch returns the receiver instead of a Failure
Success_flatMapAsyncSwallow(this, f, nid) ==
  Eff(CASE f.k = "pending" -> Pending
        [] f.k = "raise" -> Ret(this)
        [] OTHER -> Ret(f.v),
      <<Invoke("f", this.p)>>)
Success_flatMapAsync(this, f, nid) ==
  Eff(CASE f.k = "pending" -> Pending
        [] f.k = "raise" -> Ret(Failure(f.v, nid))
        [] OTHER -> Ret(f.v),
      <<Invoke("f", this.p)>>)

Success_get(this) == Eff(Ret(this.p), <<>>)

Success_ifSuccessOrElse(this, f) ==
  Eff(IF f.k = "raise" THEN f ELSE Ret(Undef), <<Invoke("f", this.p)>>)

Success_ifSuccessOrElseAsync(this, f) ==
  Eff(CASE f.k = "pending" -> Pending
        [] f.k = "raise" -> f
        [] OTHER -> Ret(Undef),
      <<Invoke("f", this.p)>>)

Success_isFailure == FALSE

Success_isSuccess == TRUE

Success_map(this, f, nid) == Eff(Ret(Try_of(f, nid)), <<Invoke("f", this.p)>>)

\* awaits f outside the try block, so that a rejection escapes
Success_mapAsyncLeaky(this, f, nid) ==
  Eff(CASE f.k = "pending" -> Pending
        [] f.k = "raise" -> f
        [] OTHER -> Ret(Success(f.v, nid)),
      <<Invoke("f", this.p)>>)
Success_mapAsync(this, f, nid) == Eff(Try_ofAsync(f, nid), <<Invoke("f", this.p)>>)

Success_or(this) == Eff(Ret(this), <<>>)

Success_orElse(this) == Eff(Ret(this.p), <<>>)

Success_orElseThrow(this) == Eff(Ret(this.p), <<>>)

Success_orElseThrowAsync(this) == Eff(Ret(this.p), <<>>)

Success_recover(this) == Eff(Ret(this), <<>>)

Success_recoverAsync(this) == Eff(Ret(this), <<>>)

Success_recoverWith(this) == Eff(Ret(this), <<>>)

Success_recoverWithAsync(this) == Eff(Ret(this), <<>>)

Success_reduce(this, f) == Eff(f, <<Invoke("f", this.p)>>)

Success_reduceAsync(this, f) == Eff(f, <<Invoke("f", this.p)>>)

Success_toNullable(this) == Eff(Ret(this.p), <<>>)

Success_transform(this, f, nid) == Success_flatMap(this, f, nid)

Success_transformAsync(this, f, nid) == Success_flatMapAsync(this, f, nid)

(***************************************************************************)
(* class Failure: this.p is the stored error e                             *)
(***************************************************************************)
Failure_collect(this) == Eff(Ret(this), <<>>)

Failure_collectAsync(this) == Eff(Ret(this), <<>>)

Failure_failed(this, nid) == Eff(Ret(Success(this.p, nid)), <<>>)

\* returns a copy of the receiver
Failure_filterCopy(this) == Eff(Ret(Failure(this.p, this.id + 1)), <<>>)
Failure_filter(this) == Eff(Ret(this), <<>>)

Failure_filterAsync(this) == Eff(Ret(this), <<>>)

Failure_flatMap(this) == Eff(Ret(this), <<>>)

\* returns a Failure that lost the stored error
Failure_flatMapAsyncLossy(this) == Eff(Ret(Failure(Undef, this.id)), <<>>)
Failure_flatMapAsync(this) == Eff(Ret(this), <<>>)

\* throws a new Error made from the stored error
Failure_getWrapped(this) == Eff(Raise(ErrorObj(ToStr(this.p), this.id)), <<>>)
Failure_get(this) == Eff(Raise(this.p), <<>>)

\* passes the stored error to g
Failure_ifSuccessOrElseArg(this, g) ==
  CASE g.k = "default" -> Eff(Ret(Undef), <<>>)
    [] g.k = "raise" -> Eff(g, <<Invoke("g", this.p)>>)
    [] OTHER -> Eff(Ret(Undef), <<Invoke("g", this.p)>>)
\* g defaults to a function that does nothing
Failure_ifSuccessOrElse(this, g) ==
  CASE g.k = "default" -> Eff(Ret(Undef), <<>>)
    [] g.k = "raise" -> Eff(g, <<Invoke("g", NoArg)>>)
    [] OTHER -> Eff(Ret(Undef), <<Invoke("g", NoArg)>>)

Failure_ifSuccessOrElseAsync(this, g) ==
  CASE g.k = "default" -> Eff(Ret(Undef), <<>>)
    [] g.k = "pending" -> Eff(Pending, <<Invoke("g", NoArg)>>)
    [] g.k = "raise" -> Eff(g, <<Invoke("g", NoArg)>>)
    [] OTHER -> Eff(Ret(Undef), <<Invoke("g", NoArg)>>)

Failure_isFailure == TRUE

Failure_isSuccessTrue == TRUE
Failure_isSuccess == FALSE

Failure_map(this) == Eff(Ret(this), <<>>)

Failure_mapAsync(this) == Eff(Ret(this), <<>>)

Failure_or(this, x) == Eff(Ret(x), <<>>)

Failure_orElse(this, x) == Eff(Ret(x), <<>>)

\* f defaults to the identity; whatever f returns is thrown
Failure_orElseThrow(this, f) ==
  CASE f.k = "default" -> Eff(Raise(this.p), <<>>)
    [] OTHER -> Eff(Raise(f.v), <<Invoke("f", this.p)>>)

Failure_orElseThrowAsync(this, f) ==
  CASE f.k = "default" -> Eff(Raise(this.p), <<>>)
    [] f.k = "pending" -> Eff(Pending, <<Invoke("f", this.p)>>)
    [] OTHER -> Eff(Raise(f.v), <<Invoke("f", this.p)>>)

Failure_recover(this, f, nid) ==
  Eff(Ret(Try_of(IF f.k = "raise" THEN f
                 ELSE IF NotNull(f.v) THEN Ret(f.v)
                 ELSE Raise(NewError("Function not defined for " \o ToStr(this.p), nid)),
                 nid)),
      <<Invoke("f", this.p)>>)

Failure_recoverAsync(this, f, nid) ==
  Eff(Try_ofAsync(CASE f.k = "pending" -> Pending
                    [] f.k = "raise" -> f
                    [] NotNull(f.v) -> Ret(f.v)
                    [] OTHER -> Raise(NewError("Function not defined for " \o ToStr(this.p), nid)),
                  nid),
      <<Invoke("f", this.p)>>)

\* the message names the receiver instead of the stored error
Failure_recoverWithThis(this, f, nid) ==
  Eff(IF f.k = "raise" THEN Ret(Failure(f.v, nid))
      ELSE IF NotNull(f.v) THEN Ret(f.v)
      ELSE Ret(Failure(NewError("Function not defined for " \o ToStr(this), nid), nid)),
      <<Invoke("f", this.p)>>)
Failure_recoverWith(this, f, nid) ==
  Eff(IF f.k = "raise" THEN Ret(Failure(f.v, nid))
      ELSE IF NotNull(f.v) THEN Ret(f.v)
      ELSE Ret(Failure(NewError("Function not defined for " \o ToStr(this.p), nid), nid)),
      <<Invoke("f", this.p)>>)

Failure_recoverWithAsync(this, f, nid) ==
  Eff(CASE f.k = "pending" -> Pending
        [] f.k = "raise" -> Ret(Failure(f.v, nid))
        [] NotNull(f.v) -> Ret(f.v)
        [] OTHER -> Ret(Failure(NewError("Function not defined for " \o ToStr(this.p), nid), nid)),
      <<Invoke("f", this.p)>>)

Failure_reduce(this, g) == Eff(g, <<Invoke("g", this.p)>>)

Failure_reduceAsync(this, g) == Eff(g, <<Invoke("g", this.p)>>)

\* returns null instead of undefined
Failure_toNullableNull(this) == Eff(Ret(Null), <<>>)
Failure_toNullable(this) == Eff(Ret(Undef), <<>>)

Failure_transform(this, g, nid) ==
  LET r == Failure_recoverWith(this, g, nid)
  IN  Eff(r.out, <<Invoke("g", this.p)>>)

Failure_transformAsync(this, g, nid) ==
  LET r == Failure_recoverWithAsync(this, g, nid)
  IN  Eff(r.out, <<Invoke("g", this.p)>>)

(***************************************************************************)
(* class Try: abstract methods, dispatched on the variant of the receiver  *)
(***************************************************************************)
IsSucc(this) == this.tag = "Success"

collect(this, f, nid) ==
  IF IsSucc(this) THEN Success_collect(this, f, nid) ELSE Failure_collect(this)

collectAsync(this, f, nid) ==
  IF IsSucc(this) THEN Success_collectAsync(this, f, nid) ELSE Failure_collectAsync(this)

failed(this, nid) ==
  IF IsSucc(this) THEN Success_failed(this, nid) ELSE Failure_failed(this, nid)

filter(this, f, nid) ==
  IF IsSucc(this) THEN Success_filter(this, f, nid) ELSE Failure_filter(this)

filterAsync(this, f, nid) ==
  IF IsSucc(this) THEN Success_filterAsync(this, f, nid) ELSE Failure_filterAsync(this)

flatMap(this, f, nid) ==
  IF IsSucc(this) THEN Success_flatMap(this, f, nid) ELSE Failure_flatMap(this)

flatMapAsync(this, f, nid) ==
  IF IsSucc(this) THEN Success_flatMapAsync(this, f, nid) ELSE Failure_flatMapAsync(this)

get(this) == IF IsSucc(this) THEN Success_get(this) ELSE Failure_get(this)

\* unwraps the inner Try too, so that an inner Failure throws
flatUnwrapInner(this) ==
  IF IsSucc(this) /\ this.p.k = "try" /\ this.p.tag = "Failure"
  THEN Eff(Raise(this.p.p), <<>>)
  ELSE get(this)
\* Try.flat is not abstract: it is get() on a receiver typed Try<Try<U>>
flat(this) == get(this)

ifSuccessOrElse(this, f, g) ==
  IF IsSucc(this) THEN Success_ifSuccessOrElse(this, f) ELSE Failure_ifSuccessOrElse(this, g)

ifSuccessOrElseAsync(this, f, g) ==
  IF IsSucc(this) THEN Success_ifSuccessOrElseAsync(this, f)
  ELSE Failure_ifSuccessOrElseAsync(this, g)

isFailure(this) == IF IsSucc(this) THEN Success_isFailure ELSE Failure_isFailure

isSuccess(this) == IF IsSucc(this) THEN Success_isSuccess ELSE Failure_isSuccess

map(this, f, nid) ==
  IF IsSucc(this) THEN Success_map(this, f, nid) ELSE Failure_map(this)

mapAsync(this, f, nid) ==
  IF IsSucc(this) THEN Success_mapAsync(this, f, nid) ELSE Failure_mapAsync(this)

or(this, x) == IF IsSucc(this) THEN Success_or(this) ELSE Failure_or(this, x)

orElse(this, x) == IF IsSucc(this) THEN Success_orElse(this) ELSE Failure_orElse(this, x)

orElseThrow(this, f) ==
  IF IsSucc(this) THEN Success_orElseThrow(this) ELSE Failure_orElseThrow(this, f)

orElseThrowAsync(this, f) ==
  IF IsSucc(this) THEN Success_orElseThrowAsync(this) ELSE Failure_orElseThrowAsync(this, f)

recover(this, f, nid) ==
  IF IsSucc(this) THEN Success_recover(this) ELSE Failure_recover(this, f, nid)

recoverAsync(this, f, nid) ==
  IF IsSucc(this) THEN Success_recoverAsync(this) ELSE Failure_recoverAsync(this, f, nid)

recoverWith(this, f, nid) ==
  IF IsSucc(this) THEN Success_recoverWith(this) ELSE Failure_recoverWith(this, f, nid)

recoverWithAsync(this, f, nid) ==
  IF IsSucc(this) THEN Success_recoverWithAsync(this)
  ELSE Failure_recoverWithAsync(this, f, nid)

reduce(this, f, g) ==
  IF IsSucc(this) THEN Success_reduce(this, f) ELSE Failure_reduce(this, g)

reduceAsync(this, f, g) ==
  IF IsSucc(this) THEN Success_reduceAsync(this, f) ELSE Failure_reduceAsync(this, g)

toNullable(this) ==
  IF IsSucc(this) THEN Success_toNullable(this) ELSE Failure_toNullable(this)

transform(this, f, g, nid) ==
  IF IsSucc(this) THEN Success_transform(this, f, nid) ELSE Failure_transform(this, g, nid)

transformAsync(this, f, g, nid) ==
  IF IsSucc(this) THEN Success_transformAsync(this, f, nid)
  ELSE Failure_transformAsync(this, g, nid)

\* The asynchronous methods by name: the state of the returned promise, given
\* the states of the promises of the supplied functions
AsyncMethod(op, this, f, g, nid) ==
  CASE op = "ofAsync" -> Eff(Try_ofAsync(f, nid), <<Invoke("f", NoArg)>>)
    [] op = "collectAsync" -> collectAsync(this, f, nid)
    [] op = "filterAsync" -> filterAsync(this, f, nid)
    [] op = "flatMapAsync" -> flatMapAsync(this, f, nid)
    [] op = "ifSuccessOrElseAsync" -> ifSuccessOrElseAsync(this, f, g)
    [] op = "mapAsync" -> mapAsync(this, f, nid)
    [] op = "orElseThrowAsync" -> orElseThrowAsync(this, f)
    [] op = "recoverAsync" -> recoverAsync(this, f, nid)
    [] op = "recoverWithAsync" -> recoverWithAsync(this, f, nid)
    [] op = "reduceAsync" -> reduceAsync(this, f, g)
    [] op = "transformAsync" -> transformAsync(this, f, g, nid)

(***************************************************************************)
(* Inputs of the caller                                                    *)
(***************************************************************************)
Nums == {Num(n) : n \in 0..MaxNum}
Vals == Nums \cup {Undef, Null}
Thrown == {ErrorObj("boom", 0), Str("foo")}

\* Try instances made by caller code during the call nid
UserTries(nid) ==
  {Success(v, UserId(nid)) : v \in Nums} \cup {Failure(e, UserId(nid)) : e \in Thrown}

Raisers == {Raise(e) : e \in Thrown}
PartialFns == {Ret(v) : v \in Vals} \cup Raisers
Predicates == {Ret(v) : v \in Vals \cup {Bool(TRUE), Bool(FALSE)}} \cup Raisers
TryFns(nid) == {Ret(t) : t \in UserTries(nid)} \cup Raisers
PartialTryFns(nid) == TryFns(nid) \cup {Ret(Undef), Ret(Null)}
SideFns == {Ret(Undef), Ret(Num(1)), Raise(ErrorObj("boom", 0))}
ErrorFns == {Default, Ret(Str("foo")), Ret(ErrorObj("mapped", 0)), Raise(ErrorObj("boom", 0))}

(***************************************************************************)
(* The caller: constructs a Try and calls its methods one after another;   *)
(* an asynchronous call is awaited before the next call is made.           *)
(*   cur   the Try instance the caller holds                               *)
(*   call  the call in flight or, once its phase is "done", the last       *)
(*         completed call: receiver, arguments, outcome (for an            *)
(*         asynchronous call the state of the promise it returned) and the *)
(*         invocations of supplied functions it made                       *)
(*   steps the number of calls completed                                   *)
(***************************************************************************)
NoTry == [k |-> "none"]
NoCall == [phase |-> "done", op |-> "none", recv |-> NoTry, f |-> Default, g |-> Default,
           x |-> NoArg, out |-> [k |-> "none"], calls |-> <<>>]
NoLaw == [pc |-> "off"]

Init ==
  /\ cur = NoTry
  /\ call = NoCall
  /\ steps = 0
  /\ law = NoLaw

Idle == call.phase = "done" /\ steps < MaxSteps
Ready == Idle /\ cur.k = "try"
Nid == steps + 1

\* What the caller holds after a call: a Try the call returned, else what it held
Holds(out) == IF out.k = "ret" /\ out.v.k = "try" THEN out.v ELSE cur

\* A synchronous call returns (or throws) at once
Done(op, recv, f, g, x, eff) ==
  /\ call' = [phase |-> "done", op |-> op, recv |-> recv, f |-> f, g |-> g, x |-> x,
              out |-> eff.out, calls |-> eff.calls]
  /\ cur' = Holds(eff.out)
  /\ steps' = steps + 1
  /\ UNCHANGED law

\* An asynchronous call runs to its await and returns a promise; a supplied
\* function it invoked has returned a promise that is still pending
Pend(b) == IF b.k = "default" THEN b ELSE Pending

Start(op, recv, f, g) ==
  LET eff == AsyncMethod(op, recv, Pend(f), Pend(g), Nid)
  IN  /\ call' = [phase |-> IF eff.out.k = "pending" THEN "awaiting" ELSE "resumed",
                  op |-> op, recv |-> recv, f |-> f, g |-> g, x |-> NoArg,
                  out |-> eff.out, calls |-> eff.calls]
      /\ UNCHANGED <<cur, steps, law>>

\* The promise the call awaits settles (as call.f or call.g says)
Settle ==
  /\ call.phase = "awaiting"
  /\ call' = [call EXCEPT !.phase = "settled"]
  /\ UNCHANGED <<cur, steps, law>>

\* The call resumes after its await and settles the promise it returned
Resume ==
  /\ call.phase = "settled"
  /\ call' = [call EXCEPT !.phase = "resumed",
                          !.out = AsyncMethod(call.op, call.recv, call.f, call.g, Nid).out]
  /\ UNCHANGED <<cur, steps, law>>

\* The caller's await of the returned promise continues
Continue ==
  /\ call.phase = "resumed"
  /\ call' = [call EXCEPT !.phase = "done"]
  /\ cur' = Holds(call.out)
  /\ steps' = steps + 1
  /\ UNCHANGED law

Call_from ==
  /\ Idle
  /\ \E x \in Vals \cup UserTries(Nid) :
       Done("from", NoTry, Default, Default, x, Eff(Ret(Try_from(x, Nid)), <<>>))

Call_of ==
  /\ Idle
  /\ \E f \in PartialFns \cup {Ret(t) : t \in UserTries(Nid)} :
       Done("of", NoTry, f, Default, NoArg, Eff(Ret(Try_of(f, Nid)), <<Invoke("f", NoArg)>>))

Call_ofAsync ==
  /\ Idle
  /\ \E f \in PartialFns : Start("ofAsync", NoTry, f, Default)

Call_collect ==
  /\ Ready
  /\ \E f \in PartialFns : Done("collect", cur, f, Default, NoArg, collect(cur, f, Nid))

Call_collectAsync ==
  /\ Ready
  /\ \E f \in PartialFns : Start("collectAsync", cur, f, Default)

Call_failed ==
  /\ Ready
  /\ Done("failed", cur, Default, Default, NoArg, failed(cur, Nid))

Call_filter ==
  /\ Ready
  /\ \E f \in Predicates : Done("filter", cur, f, Default, NoArg, filter(cur, f, Nid))

Call_filterAsync ==
  /\ Ready
  /\ \E f \in Predicates : Start("filterAsync", cur, f, Default)

\* flat is typed for a receiver whose value is itself a Try
Call_flat ==
  /\ Ready
  /\ IsSucc(cur) => cur.p.k = "try"
  /\ Done("flat", cur, Default, Default, NoArg, flat(cur))

Call_flatMap ==
  /\ Ready
  /\ \E f \in TryFns(Nid) : Done("flatMap", cur, f, Default, NoArg, flatMap(cur, f, Nid))

Call_flatMapAsync ==
  /\ Ready
  /\ \E f \in TryFns(Nid) : Start("flatMapAsync", cur, f, Default)

Call_get ==
  /\ Ready
  /\ Done("get", cur, Default, Default, NoArg, get(cur))

Call_ifSuccessOrElse ==
  /\ Ready
  /\ \E f \in SideFns, g \in SideFns \cup {Default} :
       Done("ifSuccessOrElse", cur, f, g, NoArg, ifSuccessOrElse(cur, f, g))

Call_ifSuccessOrElseAsync ==
  /\ Ready
  /\ \E f \in SideFns, g \in SideFns \cup {Default} :
       Start("ifSuccessOrElseAsync", cur, f, g)

Call_isFailure ==
  /\ Ready
  /\ Done("isFailure", cur, Default, Default, NoArg, Eff(Ret(Bool(isFailure(cur))), <<>>))

Call_isSuccess ==
  /\ Ready
  /\ Done("isSuccess", cur, Default, Default, NoArg, Eff(Ret(Bool(isSuccess(cur))), <<>>))

Call_map ==
  /\ Ready
  /\ \E f \in PartialFns : Done("map", cur, f, Default, NoArg, map(cur, f, Nid))

Call_mapAsync ==
  /\ Ready
  /\ \E f \in PartialFns : Start("mapAsync", cur, f, Default)

Call_or ==
  /\ Ready
  /\ \E x \in UserTries(Nid) : Done("or", cur, Default, Default, x, or(cur, x))

Call_orElse ==
  /\ Ready
  /\ \E x \in Vals : Done("orElse", cur, Default, Default, x, orElse(cur, x))

Call_orElseThrow ==
  /\ Ready
  /\ \E f \in ErrorFns : Done("orElseThrow", cur, f, Default, NoArg, orElseThrow(cur, f))

Call_orElseThrowAsync ==
  /\ Ready
  /\ \E f \in ErrorFns : Start("orElseThrowAsync", cur, f, Default)

Call_recover ==
  /\ Ready
  /\ \E f \in PartialFns : Done("recover", cur, f, Default, NoArg, recover(cur, f, Nid))

Call_recoverAsync ==
  /\ Ready
  /\ \E f \in PartialFns : Start("recoverAsync", cur, f, Default)

Call_recoverWith ==
  /\ Ready
  /\ \E f \in PartialTryFns(Nid) :
       Done("recoverWith", cur, f, Default, NoArg, recoverWith(cur, f, Nid))

Call_recoverWithAsync ==
  /\ Ready
  /\ \E f \in PartialTryFns(Nid) : Start("recoverWithAsync", cur, f, Default)

Call_reduce ==
  /\ Ready
  /\ \E f \in PartialFns, g \in PartialFns :
       Done("reduce", cur, f, g, NoArg, reduce(cur, f, g))

Call_reduceAsync ==
  /\ Ready
  /\ \E f \in PartialFns, g \in PartialFns : Start("reduceAsync", cur, f, g)

Call_toNullable ==
  /\ Ready
  /\ Done("toNullable", cur, Default, Default, NoArg, toNullable(cur))

Call_transform ==
  /\ Ready
  /\ \E f \in TryFns(Nid), g \in TryFns(Nid) :
       Done("transform", cur, f, g, NoArg, transform(cur, f, g, Nid))

Call_transformAsync ==
  /\ Ready
  /\ \E f \in TryFns(Nid), g \in TryFns(Nid) : Start("transformAsync", cur, f, g)

Next ==
  \/ Call_from \/ Call_of \/ Call_ofAsync
  \/ Call_collect \/ Call_collectAsync
  \/ Call_failed
  \/ Call_filter \/ Call_filterAsync
  \/ Call_flat
  \/ Call_flatMap \/ Call_flatMapAsync
  \/ Call_get
  \/ Call_ifSuccessOrElse \/ Call_ifSuccessOrElseAsync
  \/ Call_isFailure \/ Call_isSuccess
  \/ Call_map \/ Call_mapAsync
  \/ Call_or \/ Call_orElse
  \/ Call_orElseThrow \/ Call_orElseThrowAsync
  \/ Call_recover \/ Call_recoverAsync
  \/ Call_recoverWith \/ Call_recoverWithAsync
  \/ Call_reduce \/ Call_reduceAsync
  \/ Call_toNullable
  \/ Call_transform \/ Call_transformAsync
  \/ Settle \/ Resume \/ Continue

Spec == Init /\ [][Next]_vars

(***************************************************************************)
(* The monad laws of flatMap / flatMapAsync, as the test "Try satisfies    *)
(* the monad laws" evaluates them: f and g are functions from numbers to   *)
(* Try (tables of what they do at each number), x a number, m a Try.       *)
(*   law.lid  Try.from(x).flatMap(f)                                       *)
(*   law.a1   m.flatMap(f)          law.lhs  m.flatMap(f).flatMap(g)       *)
(*   law.rhs  m.flatMap(h), h = x => f(x).flatMap(g)                       *)
(*   law.rid  m.flatMap(Try.from)                                          *)
(* With law.async the asynchronous variants are used and awaited.          *)
(***************************************************************************)
LawResults ==
  {Ret(Success(v, UserId(1))) : v \in Nums}
    \cup {Ret(Failure(Str("foo"), UserId(1))), Raise(ErrorObj("boom", 0))}
LawFns == [Nums -> LawResults]

\* What the function with table F does when a method of t invokes it: a
\* method of a Failure does not invoke it
At(F, t) == IF IsSucc(t) THEN F[t.p] ELSE Default

\* The Try that this.flatMap(f) returns, or that awaiting this.flatMapAsync(f) yields
FlatMapped(async, this, f, nid) ==
  IF async THEN flatMapAsync(this, f, nid).out.v ELSE flatMap(this, f, nid).out.v

\* h = (x) => f(x).flatMap(g), and ah = async (x) => (await af(x)).flatMapAsync(ag)
Composed(async, F, G, nid) ==
  [x \in Nums |->
     IF F[x].k = "raise" THEN F[x]
     ELSE Ret(FlatMapped(async, F[x].v, At(G, F[x].v), nid))]

\* Try.from as a supplied function, and async (x) => Try.from(x)
FromFn(nid) == [x \in Nums |-> Ret(Try_from(x, nid))]

InitLaws ==
  /\ cur = NoTry
  /\ call = NoCall
  /\ steps = 0
  /\ \E async \in BOOLEAN, x \in 0..MaxNum, fail \in BOOLEAN, F \in LawFns, G \in LawFns :
       law = [pc |-> "start", async |-> async, x |-> Num(x), F |-> F, G |-> G,
              m |-> IF fail THEN Try_of(Raise(ErrorObj("boom", 0)), 0)
                    ELSE Try_from(Num(x), 0),
              lid |-> NoTry, a1 |-> NoTry, lhs |-> NoTry, rhs |-> NoTry, rid |-> NoTry]

Law_unit ==
  /\ law.pc = "start"
  /\ law' = [law EXCEPT !.pc = "unit",
               !.lid = FlatMapped(law.async, Try_from(law.x, 1), law.F[law.x], 2)]
  /\ UNCHANGED <<cur, call, steps>>

Law_f ==
  /\ law.pc = "unit"
  /\ law' = [law EXCEPT !.pc = "f",
               !.a1 = FlatMapped(law.async, law.m, At(law.F, law.m), 3)]
  /\ UNCHANGED <<cur, call, steps>>

Law_fg ==
  /\ law.pc = "f"
  /\ law' = [law EXCEPT !.pc = "fg",
               !.lhs = FlatMapped(law.async, law.a1, At(law.G, law.a1), 4)]
  /\ UNCHANGED <<cur, call, steps>>

Law_h ==
  /\ law.pc = "fg"
  /\ law' = [law EXCEPT !.pc = "h",
               !.rhs = FlatMapped(law.async, law.m,
                                  At(Composed(law.async, law.F, law.G, 5), law.m), 6)]
  /\ UNCHANGED <<cur, call, steps>>

Law_from ==
  /\ law.pc = "h"
  /\ law' = [law EXCEPT !.pc = "done",
               !.rid = FlatMapped(law.async, law.m, At(FromFn(7), law.m), 8)]
  /\ UNCHANGED <<cur, call, steps>>

NextLaws == Law_unit \/ Law_f \/ Law_fg \/ Law_h \/ Law_from

SpecLaws == InitLaws /\ [][NextLaws]_vars

\* toEqual: the same variant holding the same payload
SameOutcome(a, b) == a.k = "try" /\ b.k = "try" /\ a.tag = b.tag /\ a.p = b.p

(***************************************************************************)
(* Properties                                                              *)
(***************************************************************************)
LawPast(pcs) == law.pc \in pcs

\* C1: monad left identity.  For every x and every f that returns a Try at x,
\* Try.from(x).flatMap(f) equals f(x); and awaiting Try.from(x).flatMapAsync(af)
\* yields a Try equal to the one af(x) resolves to.
C1_LeftIdentity ==
  (LawPast({"unit", "f", "fg", "h", "done"}) /\ law.F[law.x].k = "ret")
    => SameOutcome(law.lid, law.F[law.x].v)

C1_Witness ==
  /\ LawPast({"unit"})
  /\ law.async
  /\ law.F[law.x].k = "ret"
  /\ law.F[law.x].v.tag = "Failure"
  /\ law.lid.tag = "Failure"

\* C2: monad associativity.  For every Try m (Success or Failure) and all
\* functions f and g, m.flatMap(f).flatMap(g) equals
\* m.flatMap(x => f(x).flatMap(g)), and likewise for flatMapAsync.
C2_Associativity ==
  LawPast({"h", "done"}) => SameOutcome(law.lhs, law.rhs)

C2_Witness ==
  /\ LawPast({"h"})
  /\ IsSucc(law.m)
  /\ IsSucc(law.a1)
  /\ law.a1.p # law.m.p
  /\ law.G[law.a1.p].k = "raise"
  /\ law.rhs.tag = "Failure"

\* C3: monad right identity.  For every Try m, Success or Failure,
\* m.flatMap(Try.from) equals m (same variant, same payload), and so does
\* the Try that awaiting m.flatMapAsync(async x => Try.from(x)) yields.
C3_RightIdentity ==
  LawPast({"done"}) => SameOutcome(law.rid, law.m)

C3_Witness ==
  /\ LawPast({"done"})
  /\ law.async
  /\ IsSucc(law.m)
  /\ law.rid.id # law.m.id
  /\ law.rid.p = law.m.p

\* The call in `call` has returned to the caller (for an asynchronous call:
\* the promise it returned has settled)
Returned == call.phase \in {"resumed", "done"} /\ call.op # "none"
OnSuccess == call.recv.k = "try" /\ call.recv.tag = "Success"
OnFailure == call.recv.k = "try" /\ call.recv.tag = "Failure"

\* The behaviour of the supplied function the call invoked
Invoked == IF call.calls[1].fn = "f" THEN call.f ELSE call.g

MapLike == {"collect", "collectAsync", "filter", "filterAsync",
            "map", "mapAsync", "flatMap", "flatMapAsync"}
RecoverLike == {"recover", "recoverAsync", "recoverWith", "recoverWithAsync", "or"}

\* C4: pass-through.  collect, filter, map, flatMap and their async variants
\* on a Failure, and recover, recoverWith (and async variants) and or on a
\* Success, return the receiver itself and never invoke the supplied function.
C4_PassThrough ==
  ((call.op \in MapLike /\ OnFailure) \/ (call.op \in RecoverLike /\ OnSuccess))
    => /\ call.calls = <<>>
       /\ call.phase \in {"resumed", "done"}
       /\ call.out = Ret(call.recv)

C4_Witness ==
  /\ call.phase = "done"
  /\ call.op = "filterAsync"
  /\ OnFailure
  /\ call.f.k = "raise"
  /\ cur = call.recv

Transformations == {"collect", "collectAsync", "filter", "filterAsync", "map", "mapAsync",
                    "flatMap", "flatMapAsync", "recover", "recoverAsync",
                    "recoverWith", "recoverWithAsync", "transform", "transformAsync"}

\* C5: failure propagation policy.  Whenever a supplied function raises inside
\* a transformation method (collect, filter, map, flatMap, recover,
\* recoverWith, transform and their async variants), the method does not
\* raise: it returns a Failure whose payload is the raised payload.
C5_RaisesAreCaptured ==
  (Returned /\ call.op \in Transformations /\ call.calls # <<>> /\ Invoked.k = "raise")
    => /\ call.out.k = "ret"
       /\ call.out.v.k = "try"
       /\ call.out.v.tag = "Failure"
       /\ call.out.v.p = Invoked.v

\* C6: extraction.  On a Failure holding e (also one Try.of built from a
\* function that threw e), get() and orElseThrow() throw e itself,
\* orElseThrow(f) throws what f(e) returned, none of them returns, and
\* orElseThrowAsync rejects with the same payloads.  On a Success holding v,
\* get and orElseThrow return v.
C6_Extraction ==
  Returned =>
    /\ (call.op = "of" /\ call.f.k = "raise") => call.out = Ret(Failure(call.f.v, call.out.v.id))
    /\ (call.op = "get" /\ OnFailure) => call.out = Raise(call.recv.p)
    /\ (call.op \in {"orElseThrow", "orElseThrowAsync"} /\ OnFailure) =>
         /\ call.out.k = "raise"
         /\ call.f.k = "default" => (call.out.v = call.recv.p /\ call.calls = <<>>)
         /\ call.f.k = "ret" =>
              (call.out.v = call.f.v /\ call.calls = <<Invoke("f", call.recv.p)>>)
    /\ (call.op \in {"get", "orElseThrow", "orElseThrowAsync"} /\ OnSuccess) =>
         call.out = Ret(call.recv.p)

C6_Witness ==
  /\ call.phase = "done"
  /\ call.op = "orElseThrowAsync"
  /\ OnFailure
  /\ call.recv.p = ErrorObj("boom", 0)
  /\ call.f = Ret(ErrorObj("mapped", 0))
  /\ call.out = Raise(ErrorObj("mapped", 0))

\* C7: filter on a Success.  filter(p) returns the receiver itself when p(v)
\* is truthy and otherwise a new Failure holding the constructed error
\* "Predicate does not hold for v"; a Success holding an absent value whose
\* predicate returns that value is such a case.  filterAsync does the same.
C7_FilterOnSuccess ==
  (Returned /\ call.op \in {"filter", "filterAsync"} /\ OnSuccess /\ call.f.k = "ret") =>
    /\ call.calls = <<Invoke("f", call.recv.p)>>
    /\ Truthy(call.f.v) => call.out = Ret(call.recv)
    /\ (~Truthy(call.f.v)) =>
         /\ call.out.k = "ret"
         /\ call.out.v.k = "try"
         /\ call.out.v.tag = "Failure"
         /\ call.out.v.id # call.recv.id
         /\ call.out.v.p.k = "error"
         /\ call.out.v.p.msg = "Predicate does not hold for " \o ToStr(call.recv.p)
    /\ (call.recv.p = Undef /\ call.f.v = Undef) =>
         (call.out.v.tag = "Failure"
           /\ call.out.v.p.msg = "Predicate does not hold for undefined")
    /\ call.f.v \in {Num(1), Bool(TRUE)} => call.out = Ret(call.recv)
    /\ call.f.v \in {Num(0), Bool(FALSE), Null} => call.out.v.tag = "Failure"

C7_Witness ==
  /\ call.phase = "done"
  /\ call.op = "filterAsync"
  /\ call.recv = Success(Undef, 1)
  /\ call.f = Ret(Undef)
  /\ call.out.v.tag = "Failure"
  /\ cur = call.out.v

\* C8: partial functions.  collect(f) on a Success and recover(f) on a
\* Failure apply f to the stored payload p and return Success(f(p)) when f(p)
\* is present, a Failure holding the constructed error "Function not defined
\* for p" when it is absent and a Failure holding the raised payload when f
\* raises; recoverWith(f) on a Failure returns a present result directly.
\* The async variants resolve to the same.
C8_PartialFunctions ==
  (Returned /\ ((call.op \in {"collect", "collectAsync"} /\ OnSuccess)
                 \/ (call.op \in {"recover", "recoverAsync",
                                  "recoverWith", "recoverWithAsync"} /\ OnFailure))) =>
    /\ call.calls = <<Invoke("f", call.recv.p)>>
    /\ call.out.k = "ret"
    /\ call.out.v.k = "try"
    /\ (call.f.k = "ret" /\ call.f.v.k \notin {"null", "undefined"}) =>
         IF call.op \in {"recoverWith", "recoverWithAsync"}
         THEN call.out.v = call.f.v
         ELSE call.out.v.tag = "Success" /\ call.out.v.p = call.f.v
    /\ (call.f.k = "ret" /\ call.f.v.k \in {"null", "undefined"}) =>
         /\ call.out.v.tag = "Failure"
         /\ call.out.v.p.k = "error"
         /\ call.out.v.p.msg = "Function not defined for " \o ToStr(call.recv.p)
    /\ call.f.k = "raise" =>
         (call.out.v.tag = "Failure" /\ call.out.v.p = call.f.v)

C8_Witness ==
  /\ call.phase = "done"
  /\ call.op = "recoverAsync"
  /\ OnFailure
  /\ call.recv.p = Str("foo")
  /\ call.f = Ret(Undef)
  /\ call.out.v.tag = "Failure"
  /\ call.out.v.p.msg = "Function not defined for foo"

TwoFunctions == {"reduce", "reduceAsync", "transform", "transformAsync",
                 "ifSuccessOrElse", "ifSuccessOrElseAsync"}

\* C9: branch exclusivity.  A call of reduce, transform or ifSuccessOrElse
\* (or an async variant) that is given both functions invokes exactly one of
\* them, exactly once: f with the stored value on a Success, g on a Failure
\* (with the stored error for reduce and transform, with no argument for
\* ifSuccessOrElse), also when the invoked function raises or returns a
\* Failure; reduce returns the invoked function's result unwrapped.
C9_BranchExclusivity ==
  (call.op \in TwoFunctions /\ call.g.k # "default") =>
    /\ Len(call.calls) = 1
    /\ OnSuccess => call.calls[1] = Invoke("f", call.recv.p)
    /\ OnFailure =>
         call.calls[1] = Invoke("g", IF call.op \in {"ifSuccessOrElse", "ifSuccessOrElseAsync"}
                                     THEN NoArg ELSE call.recv.p)
    /\ (Returned /\ call.op \in {"reduce", "reduceAsync"}) =>
         call.out = (IF OnSuccess THEN call.f ELSE call.g)

C9_Witness ==
  /\ call.phase = "done"
  /\ call.op = "ifSuccessOrElseAsync"
  /\ OnFailure
  /\ call.f.k = "ret"
  /\ call.g.k = "raise"
  /\ call.calls = <<Invoke("g", NoArg)>>
  /\ call.out.k = "raise"

\* C10: variant exclusivity.  For every instance the caller can come to hold
\* exactly one of isSuccess() and isFailure() is true; Try.from(v) is a
\* success for every v, an absent one included; failed() flips the variant:
\* a Success becomes a failure, a Failure holding e a success holding e.
C10_VariantExclusivity ==
  /\ cur.k = "try" => (isSuccess(cur) # isFailure(cur))
  /\ (Returned /\ call.op = "from") =>
       (isSuccess(call.out.v) /\ ~isFailure(call.out.v) /\ call.out.v.p = call.x)
  /\ (Returned /\ call.op = "failed") =>
       /\ isSuccess(call.out.v) # isSuccess(call.recv)
       /\ isFailure(call.out.v) # isFailure(call.recv)
       /\ OnFailure => call.out.v.p = call.recv.p
  /\ (Returned /\ call.op = "isSuccess") => call.out = Ret(Bool(OnSuccess))
  /\ (Returned /\ call.op = "isFailure") => call.out = Ret(Bool(OnFailure))

C10_Witness ==
  /\ call.phase = "done"
  /\ call.op = "failed"
  /\ OnFailure
  /\ call.recv.p = Str("foo")
  /\ cur = Success(Str("foo"), call.out.v.id)
  /\ isSuccess(cur)
  /\ ~isFailure(cur)

\* C11: asynchronous ordering.  The promise Try.ofAsync(f) returns settles
\* only in a step taken after the promise f returned has settled, and it
\* fulfils with Success(result) if that one fulfilled and with
\* Failure(rejection payload) if it rejected, never rejecting itself; the
\* promise ifSuccessOrElseAsync returns settles only after the promise of the
\* function it invoked (f on a Success, g on a Failure) has settled, and the
\* caller continues only after that.
C11_AsyncOrdering ==
  [][(call'.op \in {"ofAsync", "ifSuccessOrElseAsync"} /\ call'.calls # <<>>) =>
       /\ (call'.phase = "resumed" /\ call.phase # "resumed") =>
            (call.phase = "settled" /\ call.op = call'.op)
       /\ (call'.phase = "resumed" /\ call'.op = "ofAsync") =>
            call'.out = Ret(IF call'.f.k = "raise" THEN Failure(call'.f.v, steps + 1)
                            ELSE Success(call'.f.v, steps + 1))
       /\ (call'.phase = "done" /\ call' # call) =>
            (call.phase = "resumed" /\ call'.out = call.out)
       /\ call'.phase \in {"awaiting", "settled"} => call'.out = Pending
    ]_vars

C11_Witness ==
  /\ call.phase = "resumed"
  /\ call.op = "ofAsync"
  /\ call.f = Raise(Str("foo"))
  /\ call.out = Ret(Failure(Str("foo"), steps + 1))
  /\ cur.k = "try"

\* C12 as claimed: flat() on a Success whose value is a Failure raises
\* through get() instead of returning the inner Failure; on a Success whose
\* value is a Success it returns the inner instance.
C12_FlatRaisesOnInnerFailure ==
  (Returned /\ call.op = "flat" /\ OnSuccess) =>
    IF call.recv.p.tag = "Failure" THEN call.out.k = "raise"
    ELSE call.out = Ret(call.recv.p)

\* C12 as the code has it: flat() on a Success returns the inner instance
\* itself, whether that is a Success or a Failure, and does not raise; flat()
\* raises only on an outer Failure, whose stored error it throws.
C12_FlatReturnsInner ==
  (Returned /\ call.op = "flat") =>
    /\ call.calls = <<>>
    /\ OnSuccess => call.out = Ret(call.recv.p)
    /\ OnFailure => call.out = Raise(call.recv.p)

C12_Witness ==
  /\ call.phase = "done"
  /\ call.op = "flat"
  /\ OnSuccess
  /\ call.recv.p.k = "try"
  /\ call.recv.p.tag = "Failure"
  /\ call.out = Ret(call.recv.p)
  /\ cur = call.recv.p

\* The allocation index of the call in `call`
CallNid == IF call.phase = "done" THEN steps ELSE steps + 1

\* The call in `call` returned a Failure holding an Error the class itself
\* constructed during the call (an Error thrown by caller code is older)
ConstructedFailure ==
  /\ Returned
  /\ call.out.k = "ret"
  /\ call.out.v.k = "try"
  /\ call.out.v.tag = "Failure"
  /\ call.out.v.p.k = "error"
  /\ call.out.v.p.oid = CallNid

NotDefinedFor(x) == "Function not defined for " \o ToStr(x)
DoesNotHoldFor(x) == "Predicate does not hold for " \o ToStr(x)

\* C13 as claimed: every failure payload the class constructs itself is of
\* one of exactly two kinds, "Function not defined for <value>" or
\* "Predicate does not hold for <value>".
C13_TwoSyntheticKinds ==
  ConstructedFailure =>
    call.out.v.p.msg \in {NotDefinedFor(call.recv.p), DoesNotHoldFor(call.recv.p)}

\* C13 as the code has it: there are exactly three kinds.  Besides
\* "Function not defined for <value>" (collect, recover, recoverWith, and
\* transform through recoverWith) and "Predicate does not hold for <value>"
\* (filter), failed() on a Success constructs "Cannot call failed() on
\* instance of Success".  Every other Failure a call builds holds the payload
\* that the supplied function raised.
C13_ThreeSyntheticKinds ==
  /\ (Returned /\ call.out.k = "ret" /\ call.out.v.k = "try" /\ call.out.v.tag = "Failure"
        /\ call.out.v.id = CallNid /\ ~ConstructedFailure) =>
       (call.calls # <<>> /\ Invoked.k = "raise" /\ call.out.v.p = Invoked.v)
  /\ ConstructedFailure =>
    \/ /\ call.out.v.p.msg = NotDefinedFor(call.recv.p)
       /\ call.op \in {"collect", "collectAsync", "recover", "recoverAsync", "recoverWith",
                       "recoverWithAsync", "transform", "transformAsync"}
       /\ Invoked.k = "ret"
       /\ Invoked.v.k \in {"null", "undefined"}
    \/ /\ call.out.v.p.msg = DoesNotHoldFor(call.recv.p)
       /\ call.op \in {"filter", "filterAsync"}
       /\ OnSuccess
    \/ /\ call.out.v.p.msg = "Cannot call failed() on instance of Success"
       /\ call.op = "failed"
       /\ OnSuccess

C13_Witness ==
  /\ call.phase = "done"
  /\ call.op = "failed"
  /\ OnSuccess
  /\ ConstructedFailure
  /\ call.out.v.p.msg = "Cannot call failed() on instance of Success"
  /\ cur = call.out.v

\* The synchronous sibling of each asynchronous method, by the name of the
\* asynchronous one
SyncMethod(op, this, f, g, nid) ==
  CASE op = "collectAsync" -> collect(this, f, nid)
    [] op = "filterAsync" -> filter(this, f, nid)
    [] op = "flatMapAsync" -> flatMap(this, f, nid)
    [] op = "ifSuccessOrElseAsync" -> ifSuccessOrElse(this, f, g)
    [] op = "mapAsync" -> map(this, f, nid)
    [] op = "orElseThrowAsync" -> orElseThrow(this, f)
    [] op = "recoverAsync" -> recover(this, f, nid)
    [] op = "recoverWithAsync" -> recoverWith(this, f, nid)
    [] op = "reduceAsync" -> reduce(this, f, g)
    [] op = "transformAsync" -> transform(this, f, g, nid)

AsyncSiblings == {"collectAsync", "filterAsync", "flatMapAsync", "ifSuccessOrElseAsync",
                  "mapAsync", "orElseThrowAsync", "recoverAsync", "recoverWithAsync",
                  "reduceAsync", "transformAsync"}

\* C14: sync/async equivalence.  For every method with an async sibling,
\* every receiver and every behaviour of the supplied functions (returns a
\* value, returns absent, raises), the promise of the async variant settles
\* as the sync variant completes: fulfilled with the same result when the
\* sync variant returns, rejected with the same payload when it throws; and
\* both invoke the same functions with the same arguments.
C14_SyncAsyncEquivalence ==
  (Returned /\ call.op \in AsyncSiblings) =>
    /\ call.out = SyncMethod(call.op, call.recv, call.f, call.g, CallNid).out
    /\ call.calls = SyncMethod(call.op, call.recv, call.f, call.g, CallNid).calls

C14_Witness ==
  /\ call.phase = "done"
  /\ call.op = "filterAsync"
  /\ OnSuccess
  /\ call.f.k = "raise"
  /\ call.out = Raise(call.f.v)
  /\ filter(call.recv, call.f, steps).out = Raise(call.f.v)

\* What toNullable() returns on any Failure
OnAnyFailure == {toNullable(Failure(e, 0)).out : e \in Thrown}

\* C15 as claimed: toNullable() never raises, returns the stored value on a
\* Success and the absent sentinel on a Failure, so that on a Success that
\* stores an absent value (null or undefined) it returns the same result as
\* on any Failure.
C15_AbsentSuccessLooksLikeFailure ==
  (Returned /\ call.op = "toNullable") =>
    /\ call.out.k = "ret"
    /\ OnSuccess => call.out.v = call.recv.p
    /\ (OnSuccess /\ call.recv.p.k \in {"null", "undefined"}) => OnAnyFailure = {call.out}

\* C15 as the code has it: toNullable() never raises and invokes nothing; it
\* returns the stored value on a Success and undefined on a Failure.  On a
\* Success that stores undefined the result is the one of any Failure, so the
\* result alone does not determine the variant; on a Success that stores
\* null the result is null, absent too (== null) but not the undefined a
\* Failure gives.
C15_ToNullable ==
  (Returned /\ call.op = "toNullable") =>
    /\ call.out.k = "ret"
    /\ call.calls = <<>>
    /\ OnSuccess => call.out.v = call.recv.p
    /\ OnFailure => call.out.v = Undef
    /\ OnAnyFailure = {Ret(Undef)}
    /\ (OnSuccess /\ call.recv.p = Undef) => OnAnyFailure = {call.out}
    /\ (OnSuccess /\ call.recv.p = Null) =>
         (call.out = Ret(Null) /\ call.out \notin OnAnyFailure /\ call.out.v.k # "undefined")

C15_Witness ==
  /\ call.phase = "done"
  /\ call.op = "toNullable"
  /\ OnSuccess
  /\ call.recv.p = Undef
  /\ call.out = Ret(Undef)
  /\ call.out \in OnAnyFailure

====
